---- MODULE Spec2Model ----
(***************************************************************************)
(* AxiomSon: the bounded-concurrency equation scheduler of mods/runner.py  *)
(* (_active, _queue, _lock, _start_equation, _finish,                      *)
(* _maybe_start_or_queue, interactive) and the time-stepped                *)
(* equation-to-music engine of mods/engine.py (render_config,              *)
(* _quantize_time, _get_scale_degrees).                                    *)
(*                                                                         *)
(* Spec        the scheduler: the prompt loop (main thread), the start     *)
(*             threads and the timer callbacks, one step per critical      *)
(*             section of _lock.                                           *)
(* SpecFair    the scheduler under fair scheduling of its tasks.           *)
(* SpecEngine  the step loop of render_config for one equation.            *)
(* SpecRun     run(config): render_config over the equations of one        *)
(*             configuration, up to pm.write and the exit code of run.     *)
(* SpecMapper  the scale mapping of one step (degree index, pitches,       *)
(*             velocity) as a function of v_scaled and the mapping.        *)
(* SpecQuantizer  _quantize_time on pairs of times.                        *)
(* SpecTempo   the step loop of render_config under tempos of either sign, *)
(*             followed for at most MaxSteps steps.                        *)
(***************************************************************************)
EXTENDS Integers, Sequences, FiniteSets, TLC

VARIABLES
    active,          \* runner._active: list of equations, in append order
    queue,           \* runner._queue: list of equations, in append order
    lock,            \* runner._lock: the set of tasks holding it ({} = free)
    mainpc,          \* position of the prompt loop interactive()
    spc,             \* per equation: position of its start thread / timer callback
    nextId,          \* the next equation the prompt loop will construct
    queuedAtSubmit,  \* history: per equation, the equations in _queue when it was submitted
    direct,          \* history: the equations whose submit found fewer than 3 active
    duration,        \* per equation: whether a timed wait of eq.duration seconds is possible
    process,         \* "running", or "ended" once the interpreter has shut down
    cfg,             \* engine: the configuration of the equation being rendered
    epc,             \* engine: position of render_config for that equation
    t,               \* engine: local time of the step loop, in ticks
    dt,              \* engine: step length, in ticks
    vars_local,      \* engine: the VariableState {x, y, z}
    update_fns,      \* engine: the prepared update rules (left, right-hand side)
    notes,           \* engine: instrument.notes, in append order
    steps,           \* engine history: one record per executed step of the loop
    config,          \* run: config['equations'], each with the tempo of the configuration
    eq_i,            \* run: the index i of `for i, e in enumerate(equations, start=1)`
    instruments,     \* run: pm.instruments, one Track (list of notes) per rendered equation
    midi,            \* run: the MIDI file: whether pm.write has run, and the tracks written
    rpc,             \* run: position of run(config, output_file)
    exit_code,       \* run: the value run() returned (meaningful once rpc = "returned")
    simulated,       \* run history: number of steps simulated so far, over all equations
    m_in,            \* mapper: (v_scaled, mapping configuration) given to the scale mapping
    m_out,           \* mapper: its result
    mpc,             \* mapper: position
    q_in,            \* quantizer: two times (ticks), quant and beat given to _quantize_time
    q_out,           \* quantizer: its results
    qpc              \* quantizer: position

schedVars == <<active, queue, lock, mainpc, spc, nextId, queuedAtSubmit, direct, duration, process>>

engVars == <<cfg, epc, t, dt, vars_local, update_fns, notes, steps>>

mapVars == <<m_in, m_out, mpc>>

quantVars == <<q_in, q_out, qpc>>

runVars == <<config, eq_i, instruments, midi, rpc, exit_code, simulated>>

vars == <<schedVars, engVars, mapVars, quantVars, runVars>>

----------------------------------------------------------------------------
(* Bounds *)

\* number of equations the user enters in one interactive session
MaxEq == 5

\* number of these equations whose duration is too large for a timed wait
MaxOverflow == 1

----------------------------------------------------------------------------
(* Scheduler: mods/runner.py *)

\* the literal 3 of `len(_active) < 3`
Capacity == 3

Eqs == 1..MaxEq

\* the task that is the prompt loop; equation e's thread/timer is task e
MainTask == 0

Range(s) == {s[i] : i \in 1..Len(s)}

\* mutant of ListRemove: the list is left as it is
ListRemove_Keep(s, x) == s

\* list.remove(eq): delete the first occurrence; ValueError is swallowed
ListRemove(s, x) ==
    IF x \notin Range(s) THEN s
    ELSE LET i == CHOOSE k \in 1..Len(s) : s[k] = x /\ \A j \in 1..(k-1) : s[j] # x
         IN  SubSeq(s, 1, i-1) \o SubSeq(s, i+1, Len(s))

\* interactive() has been left, by a return or by an exception nothing catches
Left ==
    mainpc \in {"ended_empty", "ended_config_only", "all_finished", "interrupted", "prompt_raised"}

\* the interpreter has shut down; every thread and timer is a daemon and ends
\* with it
Exited == process = "ended"

\* eq.duration = max(0.1, float(dur_raw)) as threading.Timer takes it: a
\* number of seconds Event.wait can wait for ("finite"), or one it rejects
\* with OverflowError ("overflow": inf, 1e300)
Durations == {"finite", "overflow"}

\* mutant of LockFree: the critical sections are entered without the lock
LockFree_Ignored == TRUE

\* `with _lock:` entry
LockFree == lock = {}

\* the guard of `if len(_active) < 3` in _maybe_start_or_queue
HasCapacity == Len(active) < Capacity

\* mutant of CanPromote: a waiting equation is started only when nothing is active
CanPromote_OnlyWhenIdle == queue # <<>> /\ Len(active) = 0

\* the guard of `if _queue and len(_active) < 3` in _finish
CanPromote == queue # <<>> /\ Len(active) < Capacity

InitSched ==
    /\ active = <<>>
    /\ queue = <<>>
    /\ lock = {}
    /\ mainpc = "prompt"
    /\ spc = [e \in Eqs |-> "new"]
    /\ nextId = 1
    /\ queuedAtSubmit = [e \in Eqs |-> {}]
    /\ direct = {}
    /\ duration = [e \in Eqs |-> "unset"]
    /\ process = "running"

\* the prompts of one equation are answered, the Equation is constructed
\* and _maybe_start_or_queue acquires `with _lock:`
SubmitEnter ==
    /\ mainpc = "prompt"
    /\ nextId <= MaxEq
    /\ LockFree
    /\ \E d \in Durations :
          /\ d = "overflow" => Cardinality({e \in Eqs : duration[e] = "overflow"}) < MaxOverflow
          /\ duration' = [duration EXCEPT ![nextId] = d]
    /\ lock' = {MainTask}
    /\ mainpc' = "submit_cs"
    /\ UNCHANGED <<active, queue, spc, nextId, queuedAtSubmit, direct, process, engVars, mapVars, quantVars, runVars>>

\* _maybe_start_or_queue: the body of the critical section, and the return
SubmitBody ==
    /\ mainpc = "submit_cs"
    /\ LET e == nextId IN
         /\ IF HasCapacity
               THEN /\ spc' = [spc EXCEPT ![e] = "spawned"]
                    /\ queue' = queue
                    /\ direct' = direct \cup {e}
               ELSE /\ queue' = Append(queue, e)
                    /\ spc' = [spc EXCEPT ![e] = "queued"]
                    /\ direct' = direct
         /\ queuedAtSubmit' = [queuedAtSubmit EXCEPT ![e] = Range(queue)]
    /\ nextId' = nextId + 1
    /\ lock' = lock \ {MainTask}
    /\ mainpc' = "prompt"
    /\ UNCHANGED <<active, duration, process, engVars, mapVars, quantVars, runVars>>

\* the `status` command: `with _lock:` acquired
StatusEnter ==
    /\ mainpc = "prompt"
    /\ LockFree
    /\ lock' = {MainTask}
    /\ mainpc' = "status_cs"
    /\ UNCHANGED <<active, queue, spc, nextId, queuedAtSubmit, direct, duration, process, engVars, mapVars, quantVars, runVars>>

\* the `status` command: print both name lists
StatusBody ==
    /\ mainpc = "status_cs"
    /\ lock' = lock \ {MainTask}
    /\ mainpc' = "prompt"
    /\ UNCHANGED <<active, queue, spc, nextId, queuedAtSubmit, direct, duration, process, engVars, mapVars, quantVars, runVars>>

\* the `save` command up to the wait loop; cfg_dir.mkdir and out.write_text
\* can raise (configs is a file, the directory cannot be written), nothing
\* catches it and interactive() is left by the exception
Save ==
    /\ mainpc = "prompt"
    /\ \E config_only \in BOOLEAN, saved \in BOOLEAN :
          mainpc' = IF nextId = 1 THEN "ended_empty"
                    ELSE IF ~saved THEN "prompt_raised"
                    ELSE IF config_only THEN "ended_config_only"
                    ELSE "waiting"
    /\ UNCHANGED <<active, queue, lock, spc, nextId, queuedAtSubmit, direct, duration, process, engVars, mapVars, quantVars, runVars>>

\* the wait loop: `with _lock:` acquired
WaitEnter ==
    /\ mainpc = "waiting"
    /\ LockFree
    /\ lock' = {MainTask}
    /\ mainpc' = "wait_cs"
    /\ UNCHANGED <<active, queue, spc, nextId, queuedAtSubmit, direct, duration, process, engVars, mapVars, quantVars, runVars>>

\* the wait loop: read both lengths, break or sleep
WaitBody ==
    /\ mainpc = "wait_cs"
    /\ mainpc' = IF Len(active) = 0 /\ Len(queue) = 0 THEN "all_finished" ELSE "waiting"
    /\ lock' = lock \ {MainTask}
    /\ UNCHANGED <<active, queue, spc, nextId, queuedAtSubmit, direct, duration, process, engVars, mapVars, quantVars, runVars>>

\* interactive() is left by an exception that nothing catches: input()
\* raises at a prompt (end of stdin, Ctrl-C), or Ctrl-C arrives while the
\* prompt loop is inside `with _lock:` of _maybe_start_or_queue or of the
\* status command, before the body has run; the with statement releases the
\* lock and the process ends
PromptRaises ==
    /\ mainpc \in {"prompt", "submit_cs", "status_cs"}
    /\ mainpc' = "prompt_raised"
    /\ lock' = lock \ {MainTask}
    /\ UNCHANGED <<active, queue, spc, nextId, queuedAtSubmit, direct, duration, process, engVars, mapVars, quantVars, runVars>>

\* KeyboardInterrupt inside the try of the wait loop: during time.sleep, or
\* inside `with _lock:` before the lengths are tested (the lock is released)
Interrupt ==
    /\ mainpc \in {"waiting", "wait_cs"}
    /\ mainpc' = "interrupted"
    /\ lock' = lock \ {MainTask}
    /\ UNCHANGED <<active, queue, spc, nextId, queuedAtSubmit, direct, duration, process, engVars, mapVars, quantVars, runVars>>

\* main.py after interactive() has been left: sys.exit(0), or the traceback
\* of the exception, and the shutdown of the interpreter.  Until this step
\* the daemon threads and timers go on
ProcessEnds ==
    /\ Left
    /\ process = "running"
    /\ process' = "ended"
    /\ UNCHANGED <<active, queue, lock, mainpc, spc, nextId, queuedAtSubmit, direct, duration, engVars, mapVars, quantVars, runVars>>

\* _start_equation: `with _lock:` acquired
StartEnter(e) ==
    /\ ~Exited
    /\ spc[e] = "spawned"
    /\ LockFree
    /\ lock' = {e}
    /\ spc' = [spc EXCEPT ![e] = "append_cs"]
    /\ UNCHANGED <<active, queue, mainpc, nextId, queuedAtSubmit, direct, duration, process, engVars, mapVars, quantVars, runVars>>

\* _start_equation: _active.append(eq), then the Timer for _finish is
\* started; the timer thread waits eq.duration seconds, or ends at once with
\* the OverflowError of Event.wait and never calls _finish
StartAppend(e) ==
    /\ ~Exited
    /\ spc[e] = "append_cs"
    /\ active' = Append(active, e)
    /\ lock' = lock \ {e}
    /\ spc' = [spc EXCEPT ![e] = IF duration[e] = "overflow" THEN "timer_dead" ELSE "timing"]
    /\ UNCHANGED <<queue, mainpc, nextId, queuedAtSubmit, direct, duration, process, engVars, mapVars, quantVars, runVars>>

\* _finish: the timer fired, first `with _lock:` acquired
FinishEnter(e) ==
    /\ ~Exited
    /\ spc[e] = "timing"
    /\ LockFree
    /\ lock' = {e}
    /\ spc' = [spc EXCEPT ![e] = "remove_cs"]
    /\ UNCHANGED <<active, queue, mainpc, nextId, queuedAtSubmit, direct, duration, process, engVars, mapVars, quantVars, runVars>>

\* _finish: _active.remove(eq)
FinishRemove(e) ==
    /\ ~Exited
    /\ spc[e] = "remove_cs"
    /\ active' = ListRemove(active, e)
    /\ lock' = lock \ {e}
    /\ spc' = [spc EXCEPT ![e] = "removed"]
    /\ UNCHANGED <<queue, mainpc, nextId, queuedAtSubmit, direct, duration, process, engVars, mapVars, quantVars, runVars>>

\* _finish: second `with _lock:` acquired
PromoteEnter(e) ==
    /\ ~Exited
    /\ spc[e] = "removed"
    /\ LockFree
    /\ lock' = {e}
    /\ spc' = [spc EXCEPT ![e] = "promote_cs"]
    /\ UNCHANGED <<active, queue, mainpc, nextId, queuedAtSubmit, direct, duration, process, engVars, mapVars, quantVars, runVars>>

\* mutant of PromoteBody: the equation queued last is started
PromoteBody_PopLast(e) ==
    /\ ~Exited
    /\ spc[e] = "promote_cs"
    /\ IF CanPromote
          THEN /\ queue' = SubSeq(queue, 1, Len(queue) - 1)
               /\ spc' = [spc EXCEPT ![e] = "finished", ![queue[Len(queue)]] = "spawned"]
          ELSE /\ queue' = queue
               /\ spc' = [spc EXCEPT ![e] = "finished"]
    /\ lock' = lock \ {e}
    /\ UNCHANGED <<active, mainpc, nextId, queuedAtSubmit, direct, duration, process, engVars, mapVars, quantVars, runVars>>

\* _finish: start the next queued equation if any
PromoteBody(e) ==
    /\ ~Exited
    /\ spc[e] = "promote_cs"
    /\ IF CanPromote
          THEN /\ queue' = Tail(queue)
               /\ spc' = [spc EXCEPT ![e] = "finished", ![Head(queue)] = "spawned"]
          ELSE /\ queue' = queue
               /\ spc' = [spc EXCEPT ![e] = "finished"]
    /\ lock' = lock \ {e}
    /\ UNCHANGED <<active, mainpc, nextId, queuedAtSubmit, direct, duration, process, engVars, mapVars, quantVars, runVars>>

----------------------------------------------------------------------------
(* Numbers.  Times are whole ticks of 1/TicksPerSecond seconds; raw       *)
(* expression values and variable values are exact rationals [n, d] with  *)
(* d > 0 in lowest terms; v_scaled is a numerator over VDen.              *)
(*                                                                         *)
(* The code keeps times in binary64 floats.  Every time given as an input  *)
(* (window, beat) is a whole number of grains of 1/512 s, so that the      *)
(* floats hold it exactly and the sums, products and quotients of          *)
(* `t += dt`, `beat_seconds * frac` and `round(t / grid) * grid` are exact *)
(* as well: on these inputs the floats of the code and the ticks below     *)
(* order and compare alike.  Inputs that binary64 cannot hold exactly      *)
(* (0.025 s, tempo 1500) are outside the inputs modelled.                  *)

\* ticks per second of the time axis
TicksPerSecond == 12800

\* 1/512 s in ticks: the unit of the input times
Grain == 25

\* the literal 0.01 (seconds) of `max(0.01, dt)`, in ticks
MinNote == 128

\* resolution of v_scaled: v_scaled = VScaled(v) / VDen
VDen == 10000

Abs(n) == IF n < 0 THEN -n ELSE n

Min(a, b) == IF a <= b THEN a ELSE b

Max(a, b) == IF a >= b THEN a ELSE b

RECURSIVE GCD(_, _)
GCD(a, b) == IF b = 0 THEN a ELSE GCD(b, a % b)

Rat(n, d) ==
    LET g == GCD(Abs(n), Abs(d))
        s == IF d < 0 THEN -1 ELSE 1
    IN  [n |-> (s * n) \div g, d |-> (s * d) \div g]

RatInt(k) == [n |-> k, d |-> 1]

\* the floats that are no rationals: float('nan') and float('-inf')
NaN == [n |-> 0, d |-> 0]

NegInf == [n |-> -1, d |-> 0]

IsNaN(v) == v = NaN

RatAdd(a, b) == Rat(a.n * b.d + b.n * a.d, a.d * b.d)

RatGe(a, b) == a.n * b.d >= b.n * a.d

RatLt(a, b) == a.n * b.d < b.n * a.d

\* int(): truncation toward zero of the rational n/d, d > 0
Trunc(n, d) == IF n >= 0 THEN n \div d ELSE -((-n) \div d)

\* floor of the rational n/d, d > 0
Floor(n, d) == n \div d

Clamp(v, lo, hi) == Max(lo, Min(hi, v))

----------------------------------------------------------------------------
(* Engine: mods/engine.py *)

\* the scales table of _get_scale_degrees
Scales ==
    [major      |-> <<0, 2, 4, 5, 7, 9, 11>>,
     minor      |-> <<0, 2, 3, 5, 7, 8, 10>>,
     pentatonic |-> <<0, 2, 4, 7, 9>>,
     a_minor    |-> <<0, 2, 3, 5, 7, 8, 10>>,
     b_minor    |-> <<0, 2, 3, 5, 7, 9, 11>>,
     c_minor    |-> <<0, 2, 3, 5, 7, 8, 10>>,
     c_major    |-> <<0, 2, 4, 5, 7, 9, 11>>,
     d_minor    |-> <<0, 2, 3, 5, 7, 8, 10>>,
     d_major    |-> <<0, 2, 4, 5, 7, 9, 11>>,
     e_minor    |-> <<0, 2, 3, 5, 7, 8, 10>>,
     e_major    |-> <<0, 2, 4, 5, 7, 9, 11>>,
     f_minor    |-> <<0, 2, 3, 5, 7, 8, 10>>,
     f_major    |-> <<0, 2, 4, 5, 7, 9, 11>>,
     g_minor    |-> <<0, 2, 3, 5, 7, 8, 10>>,
     g_major    |-> <<0, 2, 4, 5, 7, 9, 11>>]

\* name.lower().replace('-', '_') on the scale names the model draws
ScaleKey(name) ==
    CASE name = "A_minor" -> "a_minor"
      [] name = "C-Major" -> "c_major"
      [] name = "Pentatonic" -> "pentatonic"
      [] OTHER -> name

\* mutant of GetScaleDegrees: an unknown name falls back to the major set
GetScaleDegrees_MajorDefault(name) ==
    LET key == ScaleKey(name)
    IN  IF key \in DOMAIN Scales THEN Scales[key] ELSE Scales["major"]

\* _get_scale_degrees: scales.get(key, scales['minor'])
GetScaleDegrees(name) ==
    LET key == ScaleKey(name)
    IN  IF key \in DOMAIN Scales THEN Scales[key] ELSE Scales["minor"]

\* `mapping.get('scale') or 'a_minor'` (the empty name is falsy)
ScaleName(mapping) == IF mapping.scale = "" THEN "a_minor" ELSE mapping.scale

\* mutant of RoundHalfEven: the quotient is rounded down
RoundHalfEven_Down(n, d) == n \div d

\* Python round(): to the nearest integer, ties to the even one; q = n/d, d > 0
RoundHalfEven(n, d) ==
    LET q == n \div d
        r == n % d
    IN  IF 2 * r < d THEN q
        ELSE IF 2 * r > d THEN q + 1
        ELSE IF q % 2 = 0 THEN q ELSE q + 1

\* beat_seconds * quant, in ticks (the model draws quant so that this is whole)
GridOf(quant, beat) == (beat * quant.n) \div quant.d

\* _quantize_time(t, quant, beat_seconds)
QuantizeTime(tt, quant, beat) ==
    IF quant.n <= 0 THEN tt
    ELSE LET grid == GridOf(quant, beat)
         IN  RoundHalfEven(tt, grid) * grid

\* parsing of eval_rate into frac: "a/b" or a decimal; 1/8 when it cannot be parsed
EvalRateFrac(eval_rate) ==
    CASE eval_rate.form = "frac" ->
            IF eval_rate.d = 0 THEN Rat(1, 8) ELSE Rat(eval_rate.n, eval_rate.d)
      [] eval_rate.form = "dec" -> Rat(eval_rate.n, eval_rate.d)
      [] OTHER -> Rat(1, 8)

\* dt = beat_seconds * frac; if dt <= 0: dt = beat_seconds * 0.125
StepLength(beat, eval_rate) ==
    LET frac == EvalRateFrac(eval_rate)
        raw  == (beat * frac.n) \div frac.d
    IN  IF raw <= 0 THEN beat \div 8 ELSE raw

\* parsing of mapping.rhythm_quant: a number, or "a/b" (1/16 when that fails)
RhythmQuant(raw) ==
    CASE raw.form = "frac" -> IF raw.d = 0 THEN Rat(1, 16) ELSE Rat(raw.n, raw.d)
      [] OTHER -> Rat(raw.n, raw.d)

\* parse_expr: the free symbols of the expression must be within {x, y, z}
ExprSymbols(expr) ==
    CASE expr = "x" -> {"x"}
      [] expr = "x + y" -> {"x", "y"}
      [] expr = "1/x" -> {"x"}
      [] expr = "x + w" -> {"x", "w"}
      [] expr = "log(x)" -> {"x"}
      [] OTHER -> {}

\* mutant of ParseExprOk: the free symbols are not checked
ParseExprOk_NoCheck(expr) == TRUE

\* `if not free.issubset(allowed): raise ValueError(...)`
ParseExprOk(expr) == ExprSymbols(expr) \subseteq {"x", "y", "z"}

\* numpy.log on the arguments the model draws (x <= 0 and x = 1): it never
\* raises; log(1) = 0, log(0) = -inf and log of a negative number is nan
NumpyLog(x) ==
    CASE x.n < 0 -> NaN
      [] x.n = 0 -> NegInf
      [] x = RatInt(1) -> RatInt(0)

\* fn(x, y, z) of the lambdified expression on Python floats:
\* [ok |-> FALSE] when the call raises (1/x at x = 0: ZeroDivisionError)
Fn(expr, x, y, z) ==
    CASE expr = "x" -> [ok |-> TRUE, v |-> x]
      [] expr = "x + y" -> [ok |-> TRUE, v |-> RatAdd(x, y)]
      [] expr = "1/x" -> IF x.n = 0 THEN [ok |-> FALSE, v |-> RatInt(0)]
                         ELSE [ok |-> TRUE, v |-> Rat(x.d, x.n)]
      [] expr = "log(x)" -> [ok |-> TRUE, v |-> NumpyLog(x)]
      [] OTHER -> [ok |-> FALSE, v |-> RatInt(0)]

\* the time t (ticks) as the float of seconds the code passes to fn
Seconds(tt) == Rat(tt, TicksPerSecond)

\* mutant of Evaluate: the fallback point (t, t, t) is tried first
Evaluate_AtTime(expr, S, tt) ==
    LET first == Fn(expr, Seconds(tt), Seconds(tt), Seconds(tt))
        again == Fn(expr, S.x, S.y, S.z)
    IN  IF first.ok THEN first.v
        ELSE IF again.ok THEN again.v
        ELSE RatInt(0)

\* the evaluate block: fn at the VariableState, else fn(t, t, t), else 0.0
Evaluate(expr, S, tt) ==
    LET first == Fn(expr, S.x, S.y, S.z)
        again == Fn(expr, Seconds(tt), Seconds(tt), Seconds(tt))
    IN  IF first.ok THEN first.v
        ELSE IF again.ok THEN again.v
        ELSE RatInt(0)

\* floor(VDen * (tanh(k) + 1) / 2) at the integers k
TanhTable ==
    [k \in -5..5 |->
        CASE k = -5 -> 0    [] k = -4 -> 3    [] k = -3 -> 24   [] k = -2 -> 179
          [] k = -1 -> 1192 [] k = 0 -> 5000  [] k = 1 -> 8807  [] k = 2 -> 9820
          [] k = 3 -> 9975  [] k = 4 -> 9996  [] k = 5 -> 9999]

\* v_norm = tanh(v); v_scaled = (v_norm + 1) / 2, as a numerator over VDen.
\* In float64 the result is exactly 1.0 from v of about 18.5 on; it is below
\* 1.0 and at least 0.9999 on [5, 18.5), and at most 0.00005 up to -5.  The
\* table is exact at the integers; between them the value is interpolated.
\* tanh(-inf) is -1.0.  (nan stays nan and never reaches the mapping: see Step.)
VScaled(v) ==
    IF v = NegInf THEN 0
    ELSE IF 2 * v.n >= 37 * v.d THEN VDen
    ELSE IF v.n >= 5 * v.d THEN VDen - 1
    ELSE IF v.n <= (-5) * v.d THEN 0
    ELSE LET k  == v.n \div v.d
             fr == v.n - k * v.d
         IN  TanhTable[k] + ((TanhTable[k + 1] - TanhTable[k]) * fr) \div v.d

\* total_steps = len(scale_degrees) * octaves, or len(scale_degrees) if that is <= 0
TotalSteps(degrees, octaves) ==
    IF Len(degrees) * octaves <= 0 THEN Len(degrees) ELSE Len(degrees) * octaves

\* mutant of DegIndex: the index is not clamped to total_steps - 1
DegIndex_Unclamped(vs, total) == Trunc(vs * total, VDen)

\* deg_index = max(0, min(total_steps - 1, int(v_scaled * total_steps)))
DegIndex(vs, total) == Max(0, Min(total - 1, Trunc(vs * total, VDen)))

\* mutant of VoicePitch: the pitch is not clamped to the MIDI range
VoicePitch_Unclamped(base_midi, degrees, deg_index, p) ==
    LET d == deg_index + p
        scale_idx == d % Len(degrees)
        octave_shift == d \div Len(degrees)
    IN  base_midi + degrees[scale_idx + 1] + 12 * octave_shift

\* pitch of voice p: max(0, min(127, base_midi + scale_degrees[d % n] + 12 * (d // n)))
VoicePitch(base_midi, degrees, deg_index, p) ==
    LET d == deg_index + p
        scale_idx == d % Len(degrees)
        octave_shift == d \div Len(degrees)
    IN  Max(0, Min(127, base_midi + degrees[scale_idx + 1] + 12 * octave_shift))

\* mutant of Chosen: the voices are listed from the highest down
Chosen_Descending(base_midi, degrees, deg_index, poly) ==
    [i \in 1..Max(poly, 0) |-> VoicePitch(base_midi, degrees, deg_index, Max(poly, 0) - i)]

\* chosen: one pitch per voice of range(poly)
Chosen(base_midi, degrees, deg_index, poly) ==
    [i \in 1..Max(poly, 0) |-> VoicePitch(base_midi, degrees, deg_index, i - 1)]

\* mutant of Times126: rounded to the nearest integer
Times126_Nearest(vs) == RoundHalfEven(vs * 126, VDen)

\* floor(126 * vs / VDen)
Times126(vs) == (vs * 126) \div VDen

\* floor(126 * vs^2 / VDen^2), split so that no product leaves 32 bits
SquareTimes126(vs) ==
    LET sq == vs * vs
    IN  (((sq \div VDen) * 126) + (((sq % VDen) * 126) \div VDen)) \div VDen

\* mutant of Velocity: int(min(127, w * 127)), without the offset 1
Velocity_NoOffset(vel_curve, vs) ==
    IF vel_curve = "exp"
       THEN Min(127, (((vs * vs) \div VDen) * 127) \div VDen)
       ELSE Min(127, (vs * 127) \div VDen)

\* vel = int(max(1, min(127, 1 + w * 126))), w = v_scaled ** 2 for the 'exp'
\* curve and w = v_scaled for every other setting
Velocity(vel_curve, vs) ==
    IF vel_curve = "exp"
       THEN Max(1, Min(127, 1 + SquareTimes126(vs)))
       ELSE Max(1, Min(127, 1 + Times126(vs)))

\* the scale mapping of one step: lines 271-291 of render_config
ScaleMapper(vs, mapping) ==
    LET degrees == GetScaleDegrees(ScaleName(mapping))
        total   == TotalSteps(degrees, mapping.octave_range)
        di      == DegIndex(vs, total)
    IN  [total_steps |-> total,
         deg_index   |-> di,
         chosen      |-> Chosen(mapping.base_midi, degrees, di, mapping.polyphony),
         vel         |-> Velocity(mapping.velocity_curve, vs)]

\* one update rule "left = right": does the text contain '='
RuleHasEq(u) == u # "x + 1"

\* the text left of the first '=' (stripped)
RuleLeft(u) ==
    CASE u = "x = x + 1" -> "x"
      [] u = "y = x" -> "y"
      [] u = "x = x + y" -> "x"
      [] u = "x = 1/y" -> "x"
      [] u = "x = (" -> "x"
      [] u = "w = 1" -> "w"
      [] u = "x = x - 1" -> "x"
      [] OTHER -> ""

\* the text right of the first '=' (stripped)
RuleRight(u) ==
    CASE u = "x = x + 1" -> "x + 1"
      [] u = "y = x" -> "x"
      [] u = "x = x + y" -> "x + y"
      [] u = "x = 1/y" -> "1/y"
      [] u = "x = (" -> "("
      [] u = "w = 1" -> "1"
      [] u = "x = x - 1" -> "x - 1"
      [] OTHER -> ""

\* sp.sympify(right) succeeds
RhsParses(rhs) == rhs # "("

\* the rule is skipped by one of the two `continue`s
RuleSkipped(u) == ~RuleHasEq(u) \/ RuleLeft(u) \notin {"x", "y", "z"}

\* update_fns: the rules that are kept, in declaration order; any rule whose
\* right-hand side does not parse empties the whole list (the except branch
\* encloses the loop)
PrepareUpdates(updates) ==
    IF \E i \in 1..Len(updates) : ~RuleSkipped(updates[i]) /\ ~RhsParses(RuleRight(updates[i]))
       THEN <<>>
       ELSE LET kept == SelectSeq(updates, LAMBDA u : ~RuleSkipped(u))
            IN  [i \in 1..Len(kept) |-> [left |-> RuleLeft(kept[i]), rhs |-> RuleRight(kept[i])]]

\* f_rhs(x, y, z, t) of a lambdified right-hand side on Python floats
RhsValue(rhs, S, tt) ==
    CASE rhs = "x + 1" -> [ok |-> TRUE, v |-> RatAdd(S.x, RatInt(1))]
      [] rhs = "x" -> [ok |-> TRUE, v |-> S.x]
      [] rhs = "x + y" -> [ok |-> TRUE, v |-> RatAdd(S.x, S.y)]
      [] rhs = "1/y" -> IF S.y.n = 0 THEN [ok |-> FALSE, v |-> RatInt(0)]
                        ELSE [ok |-> TRUE, v |-> Rat(S.y.d, S.y.n)]
      [] rhs = "1" -> [ok |-> TRUE, v |-> RatInt(1)]
      [] rhs = "x - 1" -> [ok |-> TRUE, v |-> RatAdd(S.x, RatInt(-1))]
      [] OTHER -> [ok |-> FALSE, v |-> RatInt(0)]

\* one rule of the update loop: vars_local[varname] = newval, or skipped on an exception
ApplyRule(S, r, tt) ==
    LET res == RhsValue(r.rhs, S, tt)
    IN  IF res.ok THEN [S EXCEPT ![r.left] = res.v] ELSE S

\* mutant of ApplyUpdates: every rule reads the VariableState S of the start
\* of the step; the last rule that writes a variable wins
ApplyUpdates_PreUpdate(S, fns, tt) ==
    [k \in DOMAIN S |->
        LET writers == {i \in 1..Len(fns) : fns[i].left = k /\ RhsValue(fns[i].rhs, S, tt).ok}
        IN  IF writers = {} THEN S[k]
            ELSE LET last == CHOOSE i \in writers : \A j \in writers : j <= i
                 IN  RhsValue(fns[last].rhs, S, tt).v]

\* `for (varname, f_rhs) in update_fns`: each rule reads the vars_local left by
\* the rules before it
RECURSIVE ApplyUpdates(_, _, _)
ApplyUpdates(S, fns, tt) ==
    IF fns = <<>> THEN S
    ELSE ApplyUpdates(ApplyRule(S, Head(fns), tt), Tail(fns), tt)

\* mutant of LimitHit: the comparison is strict
LimitHit_Strict(val, threshold) == RatLt(RatInt(threshold), val)

\* the test of one limit: vars_local.get(varname, 0.0) >= threshold
LimitHit(val, threshold) == RatGe(val, RatInt(threshold))

\* one limit: snap to reset_to when hit; an unparsable limit is skipped
ApplyLimit(val, lim) ==
    IF lim.ok /\ LimitHit(val, lim.threshold) THEN RatInt(lim.reset_to) ELSE val

\* `for varname, lim in limits.items()`: every limit names its own variable
ApplyLimits(S, limits) ==
    [k \in DOMAIN S |-> IF k \in DOMAIN limits THEN ApplyLimit(S[k], limits[k]) ELSE S[k]]

\* the loop condition `t <= end_t + 1e-9`: t and end_t are whole ticks and
\* 1e-9 s is less than one tick
LoopContinues(tt, end_t) == tt <= end_t

\* start_q = _quantize_time(t, rhythm_quant, beat_seconds)
NoteStart(tt, quant, beat) == QuantizeTime(tt, quant, beat)

\* mutant of NoteEnd: a collapsed interval is left as it is
NoteEnd_NoCollapseFix(tt, step, end_t, quant, beat) ==
    QuantizeTime(Min(end_t, tt + step), quant, beat)

\* end_q = _quantize_time(min(end_t, t + dt), ...); if end_q <= start_q:
\* end_q = start_q + max(0.01, dt)
NoteEnd(tt, step, end_t, quant, beat) ==
    LET start_q == NoteStart(tt, quant, beat)
        end_q   == QuantizeTime(Min(end_t, tt + step), quant, beat)
    IN  IF end_q <= start_q THEN start_q + Max(MinNote, step) ELSE end_q

\* mutant of Advance: the time runs backwards
Advance_Backwards(tt, step) == tt - step

\* t += dt
Advance(tt, step) == tt + step

\* pretty_midi.Note(velocity, pitch, start, end) for every pitch of chosen
StepNotes(chosen, vel, start_q, end_q) ==
    [i \in 1..Len(chosen) |->
        [velocity |-> vel, pitch |-> chosen[i], start |-> start_q, end |-> end_q]]

----------------------------------------------------------------------------
(* The inputs the engine is run on *)

\* the largest window end, in grains
MaxEnd == 10

\* the largest polyphony
MaxPoly == 2

Zero3 == [x |-> RatInt(0), y |-> RatInt(0), z |-> RatInt(0)]

NoLimits == [k \in {} |-> [ok |-> TRUE, threshold |-> 0, reset_to |-> 0]]

LimitChoices ==
    { NoLimits,
      [k \in {"x"} |-> [ok |-> TRUE, threshold |-> 10, reset_to |-> 0]],
      [k \in {"x"} |-> [ok |-> TRUE, threshold |-> 3, reset_to |-> 5]],
      [k \in {"x", "y"} |-> IF k = "x" THEN [ok |-> FALSE, threshold |-> 0, reset_to |-> 0]
                                       ELSE [ok |-> TRUE, threshold |-> 2, reset_to |-> -1]] }

UpdateChoices ==
    { <<>>,
      <<"x = x + 1">>,
      <<"x = x + 1", "y = x">>,
      <<"w = 1", "x + 1", "x = x + y">>,
      <<"x = 1/y", "y = x">>,
      <<"x = x + 1", "x = (">> }

VarChoices ==
    { [x |-> RatInt(a), y |-> RatInt(b), z |-> RatInt(0)] : a \in {0, 1, 5, 9}, b \in {0, 1} }

EvalRateChoices ==
    { [form |-> "frac", n |-> 1, d |-> 16],
      [form |-> "frac", n |-> 1, d |-> 4],
      [form |-> "dec",  n |-> 1, d |-> 2],
      [form |-> "dec",  n |-> 0, d |-> 1],
      [form |-> "dec",  n |-> -1, d |-> 4],
      [form |-> "frac", n |-> 1, d |-> 0],
      [form |-> "junk", n |-> 0, d |-> 1] }

QuantChoices ==
    { [form |-> "num",  n |-> 0, d |-> 1],
      [form |-> "num",  n |-> 1, d |-> 16],
      [form |-> "frac", n |-> 1, d |-> 8],
      [form |-> "frac", n |-> 3, d |-> 16],
      [form |-> "num",  n |-> 1, d |-> 1],
      [form |-> "num",  n |-> -1, d |-> 2],
      [form |-> "frac", n |-> 1, d |-> 0] }

\* the mapping of the runs that vary the timing
TimingMappings ==
    [base_midi : {60}, scale : {"A_minor"}, octave_range : {2},
     polyphony : 1..MaxPoly, velocity_curve : {"linear"},
     rhythm_quant : QuantChoices]

\* the mapping of the runs that vary the expression, the variables, the
\* update rules and the limits
ProgramMappings ==
    [base_midi : {60}, scale : {"A_minor"}, octave_range : {2},
     polyphony : {1}, velocity_curve : {"linear", "exp"},
     rhythm_quant : {[form |-> "num", n |-> 0, d |-> 1]}]

\* the variables stay on values whose tanh the table holds exactly: 1/x is
\* only run where x stays 0 or 1, 1/y only where y stays 0 or 1
ExactProgram(c) ==
    /\ c.expr = "1/x" =>
          /\ c.vars.x.n \in {0, 1}
          /\ \A i \in 1..Len(c.updates) : RuleLeft(c.updates[i]) # "x"
          /\ "x" \notin DOMAIN c.limits
    /\ (\E i \in 1..Len(c.updates) : RuleRight(c.updates[i]) = "1/y") =>
          /\ c.vars.y.n = 0
          /\ c.vars.x.n \in {0, 1}

\* every timing (tempo, window, eval_rate, rhythm_quant) on one program
TimingConfigs ==
    [beat : {16 * Grain, 32 * Grain},
     start_t : {0, 3 * Grain},
     end_t : {(MaxEnd \div 2) * Grain, MaxEnd * Grain},
     eval_rate : EvalRateChoices,
     mapping : TimingMappings,
     expr : {"x"},
     vars : {[x |-> RatInt(1), y |-> RatInt(0), z |-> RatInt(0)]},
     updates : {<<"x = x + 1">>},
     limits : {NoLimits}]

\* every program (expression, variables, update rules, limits) on a few timings
ProgramConfigs ==
    { c \in [beat : {16 * Grain},
             start_t : {0, 3 * Grain},
             end_t : {MaxEnd * Grain},
             eval_rate : {[form |-> "frac", n |-> 1, d |-> 16],
                          [form |-> "frac", n |-> 1, d |-> 4]},
             mapping : ProgramMappings,
             expr : {"x", "x + y", "1/x", "x + w"},
             vars : VarChoices,
             updates : UpdateChoices,
             limits : LimitChoices] : ExactProgram(c) }

\* the runs whose evaluation meets the singularities of log(x): -inf at 0 and
\* nan below 0, at once or after x = x - 1 has counted down from 1 (the
\* singularity of 1/x, where the call raises, is among ProgramConfigs)
SingularConfigs ==
    [beat : {16 * Grain},
     start_t : {0},
     end_t : {MaxEnd * Grain},
     eval_rate : {[form |-> "frac", n |-> 1, d |-> 16]},
     mapping : ProgramMappings,
     expr : {"log(x)"},
     vars : {[x |-> RatInt(a), y |-> RatInt(0), z |-> RatInt(0)] : a \in {-1, 0, 1}},
     updates : {<<>>, <<"x = x - 1">>},
     limits : {NoLimits, [k \in {"x"} |-> [ok |-> TRUE, threshold |-> 1, reset_to |-> 0]]}]

Configs == TimingConfigs \cup ProgramConfigs \cup SingularConfigs

\* the runs under a tempo of either sign: tempo = float(config.get('tempo',
\* 120)) is taken as it is, and beat_seconds = 60.0 / tempo has its sign
TempoConfigs ==
    [beat : {-16 * Grain, 16 * Grain},
     start_t : {0, 3 * Grain},
     end_t : {(MaxEnd \div 2) * Grain, MaxEnd * Grain},
     eval_rate : EvalRateChoices,
     mapping : [base_midi : {60}, scale : {"A_minor"}, octave_range : {2},
                polyphony : {1}, velocity_curve : {"linear"},
                rhythm_quant : {[form |-> "num", n |-> 0, d |-> 1]}],
     expr : {"x"},
     vars : {[x |-> RatInt(1), y |-> RatInt(0), z |-> RatInt(0)]},
     updates : {<<"x = x + 1">>},
     limits : {NoLimits}]

\* run() has not been called
RunOff ==
    /\ config = <<>>
    /\ eq_i = 0
    /\ instruments = <<>>
    /\ midi = [written |-> FALSE, tracks |-> <<>>]
    /\ rpc = "off"
    /\ exit_code = 0
    /\ simulated = 0

EngineOff ==
    /\ cfg = <<>>
    /\ epc = "off"
    /\ t = 0
    /\ dt = 0
    /\ vars_local = Zero3
    /\ update_fns = <<>>
    /\ notes = <<>>
    /\ steps = <<>>

InitEngine ==
    /\ cfg \in Configs
    /\ epc = "init"
    /\ t = 0
    /\ dt = 0
    /\ vars_local = Zero3
    /\ update_fns = <<>>
    /\ notes = <<>>
    /\ steps = <<>>

InitTempoEngine ==
    /\ cfg \in TempoConfigs
    /\ epc = "init"
    /\ t = 0
    /\ dt = 0
    /\ vars_local = Zero3
    /\ update_fns = <<>>
    /\ notes = <<>>
    /\ steps = <<>>

\* vars_local = {k: float(v) for k, v in vars_.items()}: the VariableState an
\* equation starts from, whatever vars_local held before
InitialVars(c, prev) == c.vars

\* render_config for one equation, up to the step loop (lines 163-250);
\* parse_expr raises on a free symbol outside {x, y, z}; otherwise a new
\* instrument (empty note list) is created and the loop variables are set
Prepare ==
    /\ epc = "init"
    /\ IF ParseExprOk(cfg.expr)
          THEN /\ epc' = "stepping"
               /\ dt' = StepLength(cfg.beat, cfg.eval_rate)
               /\ t' = cfg.start_t
               /\ vars_local' = InitialVars(cfg, vars_local)
               /\ update_fns' = PrepareUpdates(cfg.updates)
               /\ notes' = <<>>
               /\ steps' = <<>>
          ELSE /\ epc' = "aborted"
               /\ UNCHANGED <<dt, t, vars_local, update_fns, notes, steps>>
    /\ UNCHANGED <<cfg, schedVars, mapVars, quantVars, runVars>>

\* one iteration of `while t <= end_t + 1e-9` (lines 253-323).  A value v
\* that is nan makes v_scaled nan, and int(v_scaled * total_steps) raises a
\* ValueError that nothing in render_config catches: the step emits nothing
\* and render_config is left by the exception
Step ==
    /\ epc = "stepping"
    /\ LoopContinues(t, cfg.end_t)
    /\ LET v == Evaluate(cfg.expr, vars_local, t) IN
         IF IsNaN(v)
            THEN /\ epc' = "crashed"
                 /\ UNCHANGED <<notes, vars_local, t, steps>>
            ELSE LET quant   == RhythmQuant(cfg.mapping.rhythm_quant)
                     vs      == VScaled(v)
                     m       == ScaleMapper(vs, cfg.mapping)
                     start_q == NoteStart(t, quant, cfg.beat)
                     end_q   == NoteEnd(t, dt, cfg.end_t, quant, cfg.beat)
                     updated == ApplyUpdates(vars_local, update_fns, t)
                     limited == ApplyLimits(updated, cfg.limits)
                 IN  /\ notes' = notes \o StepNotes(m.chosen, m.vel, start_q, end_q)
                     /\ vars_local' = limited
                     /\ t' = Advance(t, dt)
                     /\ steps' = Append(steps,
                           [t |-> t, S |-> vars_local, v |-> v, v_scaled |-> vs,
                            deg_index |-> m.deg_index, chosen |-> m.chosen, vel |-> m.vel,
                            start |-> start_q, end |-> end_q, after |-> limited])
                     /\ epc' = epc
    /\ simulated' = simulated + 1
    /\ UNCHANGED <<cfg, dt, update_fns, schedVars, mapVars, quantVars>>
    /\ UNCHANGED <<config, eq_i, instruments, midi, rpc, exit_code>>

\* the longest prefix of a step loop that is followed
MaxSteps == 12

\* one iteration of the loop, among the first MaxSteps of the run
BoundedStep ==
    /\ simulated < MaxSteps
    /\ Step

\* the loop condition fails: pm.instruments.append(instrument)
Complete ==
    /\ epc = "stepping"
    /\ ~LoopContinues(t, cfg.end_t)
    /\ epc' = "completed"
    /\ instruments' = Append(instruments, notes)
    /\ UNCHANGED <<cfg, t, dt, vars_local, update_fns, notes, steps, schedVars, mapVars, quantVars>>
    /\ UNCHANGED <<config, eq_i, midi, rpc, exit_code, simulated>>

----------------------------------------------------------------------------
(* run(config): runner.run delegating to engine.render_config, which renders *)
(* the equations of the configuration one after the other                   *)

\* the largest number of equations in one configuration
MaxRunEqs == 2

\* an equation x with x = x + 1 over the whole window
BaseEquation ==
    [beat |-> 16 * Grain, start_t |-> 0, end_t |-> MaxEnd * Grain,
     eval_rate |-> [form |-> "frac", n |-> 1, d |-> 4],
     mapping |-> [base_midi |-> 60, scale |-> "A_minor", octave_range |-> 2,
                  polyphony |-> 1, velocity_curve |-> "linear",
                  rhythm_quant |-> [form |-> "num", n |-> 0, d |-> 1]],
     expr |-> "x",
     vars |-> [x |-> RatInt(1), y |-> RatInt(0), z |-> RatInt(0)],
     updates |-> <<"x = x + 1">>,
     limits |-> NoLimits]

\* the equations a configuration is made of: valid ones with and without
\* feedback, one with a free symbol w, one whose value is nan, one whose
\* evaluation raises
RunEquations ==
    { BaseEquation,
      [BaseEquation EXCEPT !.expr = "x + y",
                           !.vars = [x |-> RatInt(5), y |-> RatInt(1), z |-> RatInt(0)],
                           !.updates = <<"x = x + 1", "y = x">>,
                           !.limits = [k \in {"x"} |-> [ok |-> TRUE, threshold |-> 10, reset_to |-> 0]]],
      [BaseEquation EXCEPT !.start_t = 3,
                           !.vars = Zero3,
                           !.updates = <<>>],
      [BaseEquation EXCEPT !.expr = "x + w"],
      [BaseEquation EXCEPT !.expr = "log(x)",
                           !.vars = [x |-> RatInt(-1), y |-> RatInt(0), z |-> RatInt(0)],
                           !.updates = <<>>],
      [BaseEquation EXCEPT !.expr = "1/x",
                           !.vars = Zero3,
                           !.updates = <<>>] }

\* config['equations']: every list of up to MaxRunEqs of these equations
RunConfigs == UNION { [1..n -> RunEquations] : n \in 0..MaxRunEqs }

\* run() has reached the call of render_config, which has reached its loop
\* over the equations
InitRun ==
    /\ config \in RunConfigs
    /\ eq_i = 0
    /\ instruments = <<>>
    /\ midi = [written |-> FALSE, tracks |-> <<>>]
    /\ rpc = "rendering"
    /\ exit_code = 0
    /\ simulated = 0

\* `for i, e in enumerate(equations, start=1)`: the next equation is taken
LoadEquation ==
    /\ rpc = "rendering"
    /\ epc \in {"off", "completed"}
    /\ eq_i < Len(config)
    /\ eq_i' = eq_i + 1
    /\ cfg' = config[eq_i + 1]
    /\ epc' = "init"
    /\ UNCHANGED <<t, dt, vars_local, update_fns, notes, steps, schedVars, mapVars, quantVars>>
    /\ UNCHANGED <<config, instruments, midi, rpc, exit_code, simulated>>

\* the loop over the equations is done: pm.write(out_path), then the sheet
\* music and audio export of lines 331-377, still inside the try of run().
\* Either both succeed and run() returns 0, or pm.write raises (nothing is
\* written), or the export raises after the MIDI file is written (sheets is
\* a file, the written file cannot be parsed); run() then returns 5
WriteMidi ==
    /\ rpc = "rendering"
    /\ epc \in {"off", "completed"}
    /\ eq_i = Len(config)
    /\ \E outcome \in {"done", "write_raises", "export_raises"} :
          /\ midi' = IF outcome = "write_raises" THEN midi
                      ELSE [written |-> TRUE, tracks |-> instruments]
          /\ exit_code' = IF outcome = "done" THEN 0 ELSE 5
    /\ rpc' = "returned"
    /\ UNCHANGED <<config, eq_i, instruments, simulated, engVars, schedVars, mapVars, quantVars>>

\* an exception has left render_config (parse_expr's ValueError, or the
\* ValueError of a nan step): run() prints it and returns 5
RunFails ==
    /\ rpc = "rendering"
    /\ epc \in {"aborted", "crashed"}
    /\ rpc' = "returned"
    /\ exit_code' = 5
    /\ UNCHANGED <<config, eq_i, instruments, midi, simulated, engVars, schedVars, mapVars, quantVars>>

----------------------------------------------------------------------------
(* The inputs the scale mapping is applied to *)

\* the largest octave_range
MaxOctaves == 3

\* the largest polyphony given to the scale mapping alone
MaxVoices == 3

\* v_scaled in [0, 1]: both ends, the table values and the degree boundaries
VScaledSamples == {0, 1, 3, 24, 179, 1192, 4999, 5000, 7142, 7143, 8807, 9820, 9999, 10000}

MapperInputs ==
    [v_scaled : VScaledSamples,
     mapping : [base_midi : {-20, 0, 60, 100, 127, 140},
                scale : {"A_minor", "Pentatonic", "C-Major", "b_minor", "lydian", ""},
                octave_range : -1..MaxOctaves,
                polyphony : 0..MaxVoices,
                velocity_curve : {"linear", "exp", "exponential"}]]

NoOutput == [total_steps |-> 0, deg_index |-> 0, chosen |-> <<>>, vel |-> 0]

MapperOff ==
    /\ m_in = <<>>
    /\ m_out = NoOutput
    /\ mpc = "off"

InitMapper ==
    /\ m_in \in MapperInputs
    /\ m_out = NoOutput
    /\ mpc = "input"

\* lines 271-291 of render_config applied to one v_scaled
MapStep ==
    /\ mpc = "input"
    /\ m_out' = ScaleMapper(m_in.v_scaled, m_in.mapping)
    /\ mpc' = "mapped"
    /\ UNCHANGED <<m_in, schedVars, engVars, quantVars, runVars>>

----------------------------------------------------------------------------
(* The inputs _quantize_time is applied to *)

\* the largest time given to _quantize_time alone, in grains
MaxTime == 12

\* times on both sides of 0, every rhythm_quant of QuantChoices, two tempi
QuantizerInputs ==
    [t1 : {k * Grain : k \in -4..MaxTime}, t2 : {k * Grain : k \in -4..MaxTime},
     quant : {RhythmQuant(r) : r \in QuantChoices},
     beat : {16 * Grain, 32 * Grain}]

QuantizerOff ==
    /\ q_in = <<>>
    /\ q_out = <<>>
    /\ qpc = "off"

InitQuantizer ==
    /\ q_in \in QuantizerInputs
    /\ q_out = <<>>
    /\ qpc = "input"

\* _quantize_time applied to both times, and once more to the first result
QuantizeStep ==
    /\ qpc = "input"
    /\ LET r1 == QuantizeTime(q_in.t1, q_in.quant, q_in.beat)
           r2 == QuantizeTime(q_in.t2, q_in.quant, q_in.beat)
       IN  q_out' = [r1 |-> r1, r2 |-> r2,
                     again |-> QuantizeTime(r1, q_in.quant, q_in.beat)]
    /\ qpc' = "quantized"
    /\ UNCHANGED <<q_in, schedVars, engVars, mapVars, runVars>>

----------------------------------------------------------------------------
(* Specifications *)

Init == InitSched /\ EngineOff /\ MapperOff /\ RunOff /\ QuantizerOff

Next ==
    \/ SubmitEnter
    \/ SubmitBody
    \/ StatusEnter
    \/ StatusBody
    \/ Save
    \/ WaitEnter
    \/ WaitBody
    \/ PromptRaises
    \/ Interrupt
    \/ ProcessEnds
    \/ \E e \in Eqs : StartEnter(e)
    \/ \E e \in Eqs : StartAppend(e)
    \/ \E e \in Eqs : FinishEnter(e)
    \/ \E e \in Eqs : FinishRemove(e)
    \/ \E e \in Eqs : PromoteEnter(e)
    \/ \E e \in Eqs : PromoteBody(e)

Spec == Init /\ [][Next]_vars

\* fair scheduling while the process lives: a task that is inside a critical
\* section leaves it, a task that keeps finding the lock free from time to
\* time acquires it, a timer that waits fires (FinishEnter is never enabled
\* for a timer that ended with OverflowError), and the wait loop keeps polling
Fairness ==
    /\ WF_vars(SubmitBody)
    /\ WF_vars(StatusBody)
    /\ SF_vars(WaitEnter)
    /\ WF_vars(WaitBody)
    /\ WF_vars(ProcessEnds)
    /\ \A e \in Eqs :
          /\ SF_vars(StartEnter(e))
          /\ WF_vars(StartAppend(e))
          /\ SF_vars(FinishEnter(e))
          /\ WF_vars(FinishRemove(e))
          /\ SF_vars(PromoteEnter(e))
          /\ WF_vars(PromoteBody(e))

SpecFair == Init /\ [][Next]_vars /\ Fairness

InitE == InitSched /\ InitEngine /\ MapperOff /\ RunOff /\ QuantizerOff

NextEngine ==
    \/ Prepare
    \/ Step
    \/ Complete

SpecEngine == InitE /\ [][NextEngine]_vars

InitR == InitSched /\ EngineOff /\ MapperOff /\ InitRun /\ QuantizerOff

NextRun ==
    \/ LoadEquation
    \/ Prepare
    \/ Step
    \/ Complete
    \/ WriteMidi
    \/ RunFails

SpecRun == InitR /\ [][NextRun]_vars

InitM == InitSched /\ EngineOff /\ InitMapper /\ RunOff /\ QuantizerOff

NextMapper == MapStep

SpecMapper == InitM /\ [][NextMapper]_vars

InitQ == InitSched /\ EngineOff /\ MapperOff /\ RunOff /\ InitQuantizer

NextQuantizer == QuantizeStep

SpecQuantizer == InitQ /\ [][NextQuantizer]_vars

InitT == InitSched /\ InitTempoEngine /\ MapperOff /\ RunOff /\ QuantizerOff

NextTempo ==
    \/ Prepare
    \/ BoundedStep
    \/ Complete

SpecTempo == InitT /\ [][NextTempo]_vars

----------------------------------------------------------------------------
(* Claims about the scheduler *)

TypeOK ==
    /\ Range(active) \subseteq Eqs
    /\ Range(queue) \subseteq Eqs
    /\ lock \subseteq (Eqs \cup {MainTask})
    /\ nextId \in 1..(MaxEq + 1)
    /\ \A e \in Eqs : duration[e] \in Durations \cup {"unset"}
    /\ process \in {"running", "ended"}

\* the submit of e has returned
Submitted(e) == e < nextId

\* e has entered the ActiveSet at some time (_active.append(e) has run)
Admitted(e) ==
    spc[e] \in {"timing", "timer_dead", "remove_cs", "removed", "promote_cs", "finished"}

\* e has left the ActiveSet (_active.remove(e) has run)
Finished(e) == spc[e] \in {"removed", "promote_cs", "finished"}

\* C1: under every interleaving of submissions, start threads and timer
\* completions, the ActiveSet never holds more than 3 equations
C1_ActiveAtMostCapacity == Len(active) <= Capacity

\* C2: queue promotion is FIFO without overtaking: an equation D that was in
\* the Queue when a later equation E was submitted has entered the ActiveSet
\* whenever E has
C2_NoOvertaking ==
    \A E \in Eqs : \A D \in queuedAtSubmit[E] : Admitted(E) => Admitted(D)

\* C3: once submit has returned, and until it finishes, the submitted equation
\* is in exactly one of ActiveSet and Queue (so every status query lists it),
\* and submit puts it into the ActiveSet if fewer than 3 equations were active
\* at the call and at the tail of the Queue otherwise
C3_SubmittedIsActiveOrQueued ==
    /\ [](\A e \in Eqs : (Submitted(e) /\ ~Finished(e)) =>
              ((e \in Range(active)) # (e \in Range(queue))))
    /\ [][SubmitBody =>
              IF HasCapacity THEN nextId \in Range(active')
                             ELSE queue' = Append(queue, nextId)]_vars

\* no element occurs twice in the list s
NoDuplicates(s) == \A i \in 1..Len(s) : \A j \in 1..Len(s) : s[i] = s[j] => i = j

\* C15: an equation is never in the ActiveSet and in the Queue at the same
\* time, occurs at most once in each, never goes back from the ActiveSet to
\* the Queue, and once removed from the ActiveSet appears in neither again
C15_NoReentry ==
    /\ [](/\ Range(active) \cap Range(queue) = {}
          /\ NoDuplicates(active)
          /\ NoDuplicates(queue)
          /\ \A e \in Eqs : Finished(e) => e \notin Range(active) \cup Range(queue))
    /\ [][\A e \in Eqs :
              /\ (e \in Range(active) /\ e \notin Range(active')) => Finished(e)'
              /\ Admitted(e) => e \notin Range(queue')
              /\ Finished(e) => Finished(e)']_vars

\* an equation that waited in the Queue has been active and has finished
\* while a later equation is active
C15_Witness ==
    \E e \in Eqs : /\ e \notin direct
                   /\ spc[e] = "finished"
                   /\ e \notin Range(active) \cup Range(queue)
                   /\ \E d \in Range(active) : d > e

\* C17: of two equations that were both submitted while fewer than 3 were
\* active, the one submitted first enters the ActiveSet first
C17_DirectStartOrder ==
    \A D \in direct : \A E \in direct : (D < E /\ Admitted(E)) => Admitted(D)

\* the task (MainTask or an equation's thread or timer) is inside `with _lock:`
InCriticalSection(task) ==
    IF task = MainTask THEN mainpc \in {"submit_cs", "status_cs", "wait_cs"}
    ELSE spc[task] \in {"append_cs", "remove_cs", "promote_cs"}

\* C19: _finish removes the equation from the ActiveSet, and its promotion
\* step pops exactly the head of the Queue and starts it if the Queue is not
\* empty, and leaves the Queue unchanged if it is empty
C19_FinishPromotesHead ==
    /\ [][\A e \in Eqs : FinishRemove(e) => e \notin Range(active')]_vars
    /\ [][\A e \in Eqs : PromoteBody(e) =>
              IF queue # <<>>
                 THEN /\ queue' = Tail(queue)
                      /\ spc'[Head(queue)] \in {"spawned", "append_cs", "timing"}
                 ELSE queue' = queue]_vars

\* C20: _active and _queue are read and changed only by the task that holds
\* _lock, and at most one task is inside a critical section at any time
C20_MutualExclusion ==
    /\ [](/\ Cardinality(lock) <= 1
          /\ \A task \in Eqs \cup {MainTask} : InCriticalSection(task) <=> task \in lock)
    /\ [][(active' # active \/ queue' # queue) =>
              /\ Cardinality(lock) = 1
              /\ lock' = {}
              /\ \A task \in lock : InCriticalSection(task) /\ ~InCriticalSection(task)']_vars

\* a timer callback is inside its critical section while a start thread and
\* the wait loop are waiting for the lock
C20_Witness ==
    /\ \E e \in Eqs : lock = {e} /\ spc[e] = "remove_cs"
    /\ \E e \in Eqs : spc[e] = "spawned"
    /\ mainpc = "waiting"

\* every submitted equation has been active and has finished, and both
\* lists are empty
AllFinished ==
    /\ \A e \in Eqs : Submitted(e) => spc[e] = "finished"
    /\ active = <<>>
    /\ queue = <<>>

\* C16: under fair scheduling, once the submissions have stopped (the user
\* has typed save and the session waits), every submitted equation eventually
\* becomes active and later finishes and the ActiveSet and the Queue both
\* become empty, unless the user interrupts the wait
C16_EventuallyAllFinished ==
    (mainpc = "waiting") ~> (AllFinished \/ mainpc = "interrupted")

\* C21: the Queue is a FIFO in arrival order: every change of the Queue
\* appends the equation being submitted at its tail or removes its head, and
\* the Queue holds the waiting equations in the order of their submission
C21_QueueIsFifo ==
    /\ [](\A i \in 1..Len(queue) : \A j \in 1..Len(queue) : i < j => queue[i] < queue[j])
    /\ [][\/ queue' = queue
          \/ queue' = Append(queue, nextId)
          \/ queue # <<>> /\ queue' = Tail(queue) /\ spc'[Head(queue)] = "spawned"]_vars

\* of two equations that waited in the Queue together the first has been
\* taken from the head and the second is still waiting
C21_Witness ==
    /\ Len(queue) >= 1
    /\ \E e \in Eqs : /\ e \in queuedAtSubmit[Head(queue)]
                      /\ e \notin direct
                      /\ spc[e] \in {"spawned", "append_cs", "timing"}

\* C27: the wait loop leaves with 'All jobs finished.' only when every
\* equation submitted so far has been active and has finished
C27_WaitLoopSeesAllFinished ==
    mainpc = "all_finished" => \A e \in Eqs : Submitted(e) => Finished(e)

\* no submit, start thread or completion callback is in progress or pending
Quiescent ==
    /\ mainpc # "submit_cs"
    /\ \A e \in Eqs : spc[e] \in {"new", "queued", "timing", "timer_dead", "finished"}

\* C28: in every quiescent state a non-empty Queue implies that the ActiveSet
\* holds at least 3 equations
C28_WorkConserving ==
    (Quiescent /\ queue # <<>>) => Len(active) >= Capacity

\* a quiescent state after a promotion: an equation has finished, the head
\* of the Queue has taken its place and another equation still waits
C28_Witness ==
    /\ Quiescent
    /\ queue # <<>>
    /\ Len(active) = Capacity
    /\ \E e \in Eqs : spc[e] = "finished"
    /\ \E e \in Range(active) : e \notin direct

----------------------------------------------------------------------------
(* Claims about the step loop and the scale mapping *)

\* the step loop has emitted at least one note of a collapsed interval: the
\* quantized end was not after the quantized start
Collapsed(st) ==
    LET quant == RhythmQuant(cfg.mapping.rhythm_quant)
    IN  QuantizeTime(Min(cfg.end_t, st.t + dt), quant, cfg.beat)
            <= QuantizeTime(st.t, quant, cfg.beat)

\* C4: every note emitted by the step loop has end > start, whatever t, dt > 0
\* and rhythm_quant are
C4_NotePositiveDuration ==
    \A i \in 1..Len(notes) : notes[i].end > notes[i].start

\* a quantization that collapsed an interval, and a last step with t = end_t
C4_Witness ==
    /\ epc = "completed"
    /\ \E i \in 1..Len(steps) :
          /\ Collapsed(steps[i])
          /\ RhythmQuant(cfg.mapping.rhythm_quant).n > 0
          /\ steps[i].t < cfg.end_t
    /\ \E i \in 1..Len(steps) : steps[i].t = cfg.end_t
    /\ notes # <<>>

\* C5: for every v_scaled in [0,1], base_midi, scale, octave_range and
\* polyphony, every voice's pitch is an integer in [0,127]
C5_PitchInMidiRange ==
    mpc = "mapped" =>
        \A i \in 1..Len(m_out.chosen) : m_out.chosen[i] \in 0..127

\* voices whose unclamped pitch lies above 127
C5_Witness ==
    /\ mpc = "mapped"
    /\ m_in.mapping.base_midi = 140
    /\ Len(m_out.chosen) >= 2
    /\ m_out.chosen[2] = 127

\* C6: the velocity is an integer in [1,127] for every v_scaled in [0,1] and
\* every velocity_curve setting
C6_VelocityInRange ==
    mpc = "mapped" => m_out.vel \in 1..127

\* both ends of the velocity range are produced
C6_Witness ==
    /\ mpc = "mapped"
    /\ m_in.v_scaled = 0
    /\ m_out.vel = 1
    /\ m_in.mapping.velocity_curve = "exp"

\* C7: within one Track the notes are in emission order and their start times
\* are non-decreasing along the sequence
C7_StartsNonDecreasing ==
    \A i \in 1..Len(notes) : \A j \in i..Len(notes) : notes[i].start <= notes[j].start

\* a completed track of several steps on a quantization grid
C7_Witness ==
    /\ epc = "completed"
    /\ Len(steps) >= 3
    /\ RhythmQuant(cfg.mapping.rhythm_quant).n > 0
    /\ notes[1].start < notes[Len(notes)].start
    /\ \E i \in 1..(Len(steps) - 1) : steps[i].start = steps[i + 1].start

\* C8: deg_index = clamp(floor(v_scaled * total_steps), 0, total_steps - 1)
\* with total_steps = |scale_degrees| * octave_range (|scale_degrees| when that
\* is not positive); it lies in [0, total_steps - 1], is 0 at v_scaled = 0 and
\* total_steps - 1 at v_scaled = 1
C8_DegIndex ==
    mpc = "mapped" =>
        LET n     == Len(GetScaleDegrees(ScaleName(m_in.mapping)))
            prod  == n * m_in.mapping.octave_range
            total == IF prod > 0 THEN prod ELSE n
        IN  /\ m_out.total_steps = total
            /\ m_out.deg_index = Clamp(Floor(m_in.v_scaled * total, VDen), 0, total - 1)
            /\ m_out.deg_index \in 0..(total - 1)
            /\ m_in.v_scaled = 0 => m_out.deg_index = 0
            /\ m_in.v_scaled = VDen => m_out.deg_index = total - 1

\* v_scaled = 1 on a collapsed octave_range: the index is clamped to the top
C8_Witness ==
    /\ mpc = "mapped"
    /\ m_in.v_scaled = VDen
    /\ m_in.mapping.octave_range <= 0
    /\ m_out.deg_index = m_out.total_steps - 1

\* all steps of the run saw the same state and produced the same value,
\* pitches and velocity
AllStepsAlike ==
    \A i \in 1..Len(steps) :
        /\ steps[i].S = cfg.vars
        /\ steps[i].after = cfg.vars
        /\ steps[i].v = steps[1].v
        /\ steps[i].chosen = steps[1].chosen
        /\ steps[i].vel = steps[1].vel

NoFeedback == cfg.updates = <<>> /\ DOMAIN cfg.limits = {}

\* C9 as stated: with no update rules and no limits every step leaves the
\* VariableState unchanged and evaluates to the same value, pitches and velocity
C9_Original ==
    (epc \in {"stepping", "completed"} /\ NoFeedback) => AllStepsAlike

\* C9 as amended: the same, for an expression whose evaluation at the
\* VariableState does not raise
C9_ConstantRun ==
    (epc \in {"stepping", "completed"} /\ NoFeedback
        /\ Fn(cfg.expr, cfg.vars.x, cfg.vars.y, cfg.vars.z).ok) => AllStepsAlike

\* the run of expr x with x = 5 has completed after several steps
C9_Witness ==
    /\ epc = "completed"
    /\ NoFeedback
    /\ cfg.expr = "x"
    /\ cfg.vars.x = RatInt(5)
    /\ Len(steps) >= 3
    /\ steps[3].v = RatInt(5)

\* the configuration x = 9, x = x + 1, x:[10,0]
LimitExample ==
    /\ cfg.vars.x = RatInt(9)
    /\ cfg.updates = <<"x = x + 1">>
    /\ DOMAIN cfg.limits = {"x"}
    /\ cfg.limits["x"] = [ok |-> TRUE, threshold |-> 10, reset_to |-> 0]

\* C10: after the update-and-limit phase of every step each variable with a
\* limit [threshold, reset_to] is strictly below threshold or equal to
\* reset_to, and the next evaluation sees that value; x = 9 with x = x + 1 and
\* x:[10,0] is evaluated as 0 in the second step
C10_LimitReset ==
    epc \in {"stepping", "completed"} =>
        /\ \A i \in 1..Len(steps) : \A k \in DOMAIN cfg.limits :
              cfg.limits[k].ok =>
                 \/ RatLt(steps[i].after[k], RatInt(cfg.limits[k].threshold))
                 \/ steps[i].after[k] = RatInt(cfg.limits[k].reset_to)
        /\ \A i \in 1..(Len(steps) - 1) : steps[i + 1].S = steps[i].after
        /\ steps # <<>> => vars_local = steps[Len(steps)].after
        /\ (LimitExample /\ Len(steps) >= 2) =>
              /\ steps[2].S.x = RatInt(0)
              /\ cfg.expr = "x" => steps[2].v = RatInt(0)

\* the second step of the example has been evaluated
C10_Witness ==
    /\ LimitExample
    /\ cfg.expr = "x"
    /\ Len(steps) >= 2
    /\ steps[1].S.x = RatInt(9)
    /\ steps[2].S.x = RatInt(0)

\* C11: a scale name that is not in the scale table selects the natural-minor
\* set [0,2,3,5,7,8,10]; the mapping is computed without an error and gives
\* the result the name 'minor' gives
C11_UnknownScaleIsMinor ==
    (mpc = "mapped" /\ ScaleKey(ScaleName(m_in.mapping)) \notin DOMAIN Scales) =>
        /\ GetScaleDegrees(ScaleName(m_in.mapping)) = <<0, 2, 3, 5, 7, 8, 10>>
        /\ m_out = ScaleMapper(m_in.v_scaled, [m_in.mapping EXCEPT !.scale = "minor"])
        /\ m_out.total_steps = TotalSteps(<<0, 2, 3, 5, 7, 8, 10>>, m_in.mapping.octave_range)

\* the name 'lydian' mapped onto the third degree of the minor set (63 = 60 + 3)
C11_Witness ==
    /\ mpc = "mapped"
    /\ m_in.mapping.scale = "lydian"
    /\ m_in.mapping.base_midi = 60
    /\ m_out.deg_index = 2
    /\ Len(m_out.chosen) >= 1
    /\ m_out.chosen[1] = 63

----------------------------------------------------------------------------
(* Claims about failures of the evaluation and of the construction *)

\* the evaluation of the expression at the VariableState S fails: the call
\* raises, or its result is not a number
EvaluationFails(expr, S) ==
    LET r == Fn(expr, S.x, S.y, S.z) IN ~r.ok \/ IsNaN(r.v)

\* C12: a failed or non-numeric evaluation in one step never aborts the run:
\* the step falls back to the evaluation at (t, t, t), then to 0.0, still
\* emits its notes and applies updates and limits, and the loop goes on
C12_EvaluationFailureRecovers ==
    /\ epc # "crashed"
    /\ epc \in {"stepping", "completed"} =>
          \A i \in 1..Len(steps) :
             EvaluationFails(cfg.expr, steps[i].S) =>
                LET tt    == Seconds(steps[i].t)
                    again == Fn(cfg.expr, tt, tt, tt)
                IN  /\ steps[i].v = IF again.ok /\ ~IsNaN(again.v) THEN again.v ELSE RatInt(0)
                    /\ Len(steps[i].chosen) = Max(cfg.mapping.polyphony, 0)
                    /\ steps[i].after =
                          ApplyLimits(ApplyUpdates(steps[i].S, update_fns, steps[i].t), cfg.limits)

\* the configuration holds an equation whose expression has a free symbol
\* outside {x, y, z}
HasInvalidExpression ==
    \E i \in 1..Len(config) : ExprSymbols(config[i].expr) \ {"x", "y", "z"} # {}

\* C13: if any equation of the configuration has a free symbol outside
\* {x, y, z}, InvalidExpression is raised before the first time step of any
\* equation of the run is simulated
C13_InvalidExpressionBeforeAnyStep ==
    (rpc # "off" /\ epc = "aborted") => simulated = 0

\* C14: a construction-time error aborts the whole run: no track of any
\* equation is written (pm.write never runs) and run() returns a non-zero
\* exit code
C14_ConstructionErrorAbortsRun ==
    (HasInvalidExpression /\ rpc # "off") =>
        /\ ~midi.written
        /\ midi.tracks = <<>>
        /\ rpc = "returned" => exit_code # 0

\* run() has returned 5 on a configuration whose second equation is invalid,
\* after the first one was rendered into a track with notes
C14_Witness ==
    /\ rpc = "returned"
    /\ exit_code = 5
    /\ Len(config) = 2
    /\ "w" \in ExprSymbols(config[2].expr)
    /\ eq_i = 2
    /\ Len(instruments) = 1
    /\ instruments[1] # <<>>
    /\ ~midi.written

----------------------------------------------------------------------------
(* Claims about the independence of the equations of one run *)

\* the step loop of render_config run on the equation c alone, from the
\* time tt and the VariableState S with the notes acc emitted so far: the
\* notes of the instrument when the loop is left by its condition, and no
\* instrument at all when a step raises (int of a nan, line 275)
RECURSIVE SoloLoop(_, _, _, _, _, _)
SoloLoop(c, fns, step, tt, S, acc) ==
    IF ~LoopContinues(tt, c.end_t) THEN [produced |-> TRUE, notes |-> acc]
    ELSE LET v == Evaluate(c.expr, S, tt) IN
         IF IsNaN(v) THEN [produced |-> FALSE, notes |-> <<>>]
         ELSE LET quant == RhythmQuant(c.mapping.rhythm_quant)
                  m     == ScaleMapper(VScaled(v), c.mapping)
                  emitted == StepNotes(m.chosen, m.vel, NoteStart(tt, quant, c.beat),
                                       NoteEnd(tt, step, c.end_t, quant, c.beat))
              IN  SoloLoop(c, fns, step, Advance(tt, step),
                           ApplyLimits(ApplyUpdates(S, fns, tt), c.limits),
                           acc \o emitted)

\* one iteration of the loop over the equations for the equation c alone:
\* parse_expr raises on a free symbol (line 225) and a nan step raises (line
\* 275), and then no instrument is appended (line 325 is not reached);
\* otherwise the Track is the note list of the instrument appended
SoloTrack(c) ==
    IF ~ParseExprOk(c.expr) THEN [produced |-> FALSE, notes |-> <<>>]
    ELSE SoloLoop(c, PrepareUpdates(c.updates), StepLength(c.beat, c.eval_rate),
                  c.start_t, c.vars, <<>>)

\* C18: the Track produced for an equation depends only on that equation's own
\* specification and the tempo, not on the other equations of the
\* configuration or their order: in a configuration of valid expressions,
\* once the rendering has ended (by pm.write, or by an equation), every
\* equation that yields a Track when rendered alone has that same Track
\* written at its position; and the simulation of an equation starts from
\* its own VariableState, never from the one another equation left
C18_TracksIndependent ==
    (rpc # "off" /\ ~HasInvalidExpression) =>
        /\ epc = "stepping" =>
              IF steps = <<>> THEN vars_local = cfg.vars ELSE steps[1].S = cfg.vars
        /\ (rpc = "returned" /\ (midi.written \/ epc = "crashed")) =>
              \A i \in 1..Len(config) :
                 SoloTrack(config[i]).produced =>
                    /\ midi.written
                    /\ midi.tracks[i] = SoloTrack(config[i]).notes

----------------------------------------------------------------------------
(* Claims about _quantize_time *)

\* C30: _quantize_time(t, quant, beat) returns t unchanged when quant <= 0;
\* otherwise it returns a multiple of grid = beat * quant that is nearest to t
\* (within grid / 2), it is idempotent and it is monotone
C30_QuantizeTime ==
    qpc = "quantized" =>
        LET grid == (q_in.beat * q_in.quant.n) \div q_in.quant.d
        IN  /\ q_in.quant.n <= 0 => (q_out.r1 = q_in.t1 /\ q_out.r2 = q_in.t2)
            /\ q_in.quant.n > 0 =>
                  /\ q_out.r1 % grid = 0
                  /\ 2 * Abs(q_out.r1 - q_in.t1) <= grid
                  /\ q_out.r2 % grid = 0
                  /\ 2 * Abs(q_out.r2 - q_in.t2) <= grid
            /\ q_out.again = q_out.r1
            /\ q_in.t1 <= q_in.t2 => q_out.r1 <= q_out.r2

\* a time half a grid step above a grid point is moved up to the next point,
\* a later time is moved down to the same point
C30_Witness ==
    /\ qpc = "quantized"
    /\ q_in.quant = Rat(1, 8)
    /\ q_in.beat = 16 * Grain
    /\ q_in.t1 = 3 * Grain
    /\ q_out.r1 = 4 * Grain
    /\ q_in.t2 = 5 * Grain
    /\ q_out.r2 = 4 * Grain

----------------------------------------------------------------------------
(* Claims about the update rules *)

\* the step st has applied the prepared rules in declaration order: rule k
\* read the state of the start of the step (readsPreUpdate) or the state left
\* by rule k - 1, and wrote its one variable into the state left by rule
\* k - 1; a rule whose evaluation raised left that state as it was
RulesApplied(st, readsPreUpdate) ==
    LET n == Len(update_fns)
        chain[k \in 0..n] ==
            IF k = 0 THEN st.S
            ELSE LET r    == update_fns[k]
                     from == IF readsPreUpdate THEN st.S ELSE chain[k - 1]
                     res  == RhsValue(r.rhs, from, st.t)
                 IN  IF res.ok
                        THEN [v \in DOMAIN st.S |-> IF v = r.left THEN res.v ELSE chain[k - 1][v]]
                        ELSE chain[k - 1]
    IN  st.after = ApplyLimits(chain[n], cfg.limits)

\* the configuration x = 0, y = 0 with the rules [x = x + 1, y = x], no limits
UpdateExample ==
    /\ cfg.vars.x = RatInt(0)
    /\ cfg.vars.y = RatInt(0)
    /\ cfg.updates = <<"x = x + 1", "y = x">>
    /\ DOMAIN cfg.limits = {}

\* C22 as stated: the rules of one step are applied in declaration order and
\* each reads the VariableState as it was before any rule of that step; from
\* x = 0, y = 0 the rules [x = x + 1, y = x] leave y = 0, the pre-update x
C22_Original ==
    epc \in {"stepping", "completed"} =>
        /\ \A i \in 1..Len(steps) : RulesApplied(steps[i], TRUE)
        /\ (UpdateExample /\ steps # <<>>) =>
              (steps[1].after.x = RatInt(1) /\ steps[1].after.y = RatInt(0))

\* C22 as amended: the rules of one step are applied in declaration order and
\* each reads the VariableState left by the rules before it in the same step
\* and writes one variable; from x = 0, y = 0 the rules [x = x + 1, y = x]
\* leave x = 1 and y = 1
C22_SequentialUpdates ==
    epc \in {"stepping", "completed"} =>
        /\ \A i \in 1..Len(steps) : RulesApplied(steps[i], FALSE)
        /\ (UpdateExample /\ steps # <<>>) =>
              (steps[1].after.x = RatInt(1) /\ steps[1].after.y = RatInt(1))

\* the example has run: after the second step x = 2 and y = 2
C22_Witness ==
    /\ UpdateExample
    /\ epc = "completed"
    /\ Len(steps) >= 2
    /\ steps[1].after.y = RatInt(1)
    /\ steps[2].after.x = RatInt(2)
    /\ steps[2].after.y = RatInt(2)

\* the rule can be applied: it has an '=', its left-hand side is x, y or z
\* and its right-hand side parses
WellFormedRule(u) ==
    /\ RuleHasEq(u)
    /\ RuleLeft(u) \in {"x", "y", "z"}
    /\ RhsParses(RuleRight(u))

\* C23: an update rule that cannot be parsed or evaluated, or whose left-hand
\* side is not x, y or z, is skipped alone: every other rule of the equation
\* is still applied in every step; an unparsable limit does not prevent the
\* other limits from being applied
C23_BadRuleSkippedAlone ==
    epc \in {"stepping", "completed"} =>
        LET good == SelectSeq(cfg.updates, WellFormedRule)
        IN  /\ update_fns = [i \in 1..Len(good) |->
                                [left |-> RuleLeft(good[i]), rhs |-> RuleRight(good[i])]]
            /\ \A i \in 1..Len(steps) :
                  /\ RulesApplied(steps[i], FALSE)
                  /\ \A k \in DOMAIN cfg.limits :
                        cfg.limits[k].ok =>
                           \/ RatLt(steps[i].after[k], RatInt(cfg.limits[k].threshold))
                           \/ steps[i].after[k] = RatInt(cfg.limits[k].reset_to)

----------------------------------------------------------------------------
(* Claims about the active window *)

\* C29: with rhythm quantization off (rhythm_quant = 0) every emitted note
\* lies inside the active window of its equation: start_t <= start and
\* end <= end_t, for every step including the last one
C29_NotesInsideWindow ==
    (epc \in {"stepping", "completed"} /\ RhythmQuant(cfg.mapping.rhythm_quant).n = 0) =>
        \A i \in 1..Len(notes) :
            /\ cfg.start_t <= notes[i].start
            /\ notes[i].end <= cfg.end_t

----------------------------------------------------------------------------
(* Claims about the voices and the velocity of one step *)

\* the notes one step emits for the mapped pitches and velocity
EmittedNotes == StepNotes(m_out.chosen, m_out.vel, 0, MinNote)

\* one note per voice, all with the same start, end and velocity, and the
\* pitch never falls from one voice to the next
OneNotePerVoice ==
    /\ Len(EmittedNotes) = m_in.mapping.polyphony
    /\ \A i \in 1..Len(EmittedNotes) :
          /\ EmittedNotes[i].start = EmittedNotes[1].start
          /\ EmittedNotes[i].end = EmittedNotes[1].end
          /\ EmittedNotes[i].velocity = EmittedNotes[1].velocity
    /\ \A i \in 1..(Len(EmittedNotes) - 1) :
          EmittedNotes[i].pitch <= EmittedNotes[i + 1].pitch

\* C24 as stated: each step emits exactly one note per polyphony voice, all
\* with the same start, end and velocity, with pairwise distinct pitches and
\* with pitch non-decreasing in the voice index, for every base_midi, scale,
\* octave_range and polyphony >= 1
C24_Original ==
    (mpc = "mapped" /\ m_in.mapping.polyphony >= 1) =>
        /\ OneNotePerVoice
        /\ \A i \in 1..Len(EmittedNotes) : \A j \in 1..Len(EmittedNotes) :
              i # j => EmittedNotes[i].pitch # EmittedNotes[j].pitch

\* C24 as amended: the same, but the pitches are pairwise distinct only up
\* to the clamping to the MIDI range: two voices have the same pitch only
\* when both are clamped to 0 or both to 127
C24_VoicesDistinctUnlessClamped ==
    (mpc = "mapped" /\ m_in.mapping.polyphony >= 1) =>
        /\ OneNotePerVoice
        /\ \A i \in 1..Len(EmittedNotes) : \A j \in 1..Len(EmittedNotes) :
              (i # j /\ EmittedNotes[i].pitch = EmittedNotes[j].pitch) =>
                  EmittedNotes[i].pitch \in {0, 127}

\* three voices in the middle of the range, strictly rising
C24_Witness ==
    /\ mpc = "mapped"
    /\ m_in.mapping.polyphony = 3
    /\ m_in.mapping.base_midi = 60
    /\ Len(EmittedNotes) = 3
    /\ EmittedNotes[1].pitch < EmittedNotes[2].pitch
    /\ EmittedNotes[2].pitch < EmittedNotes[3].pitch
    /\ EmittedNotes[3].pitch < 127

\* clamp(1 + v_scaled * 126, 1, 127) as an integer (the fraction is dropped)
LinearVelocity(vs) == Clamp(1 + (vs * 126) \div VDen, 1, 127)

\* clamp(1 + v_scaled^2 * 126, 1, 127) as an integer (the fraction is dropped)
SquaredVelocity(vs) ==
    LET sq   == vs * vs
        hi   == sq \div VDen
        lo   == sq % VDen
    IN  Clamp(1 + (hi * 126 + (lo * 126) \div VDen) \div VDen, 1, 127)

\* C26 as stated: the velocity is clamp(1 + v_scaled * 126, 1, 127) as an
\* integer when velocity_curve is linear and clamp(1 + v_scaled^2 * 126, 1, 127)
\* when velocity_curve is exponential; the exponential velocity never exceeds
\* the linear one
C26_Original ==
    mpc = "mapped" =>
        /\ m_in.mapping.velocity_curve = "linear" => m_out.vel = LinearVelocity(m_in.v_scaled)
        /\ m_in.mapping.velocity_curve = "exponential" =>
              m_out.vel = SquaredVelocity(m_in.v_scaled)
        /\ SquaredVelocity(m_in.v_scaled) <= LinearVelocity(m_in.v_scaled)

\* C26 as amended: the squared curve is selected by the setting 'exp' only;
\* every other setting, 'linear' and 'exponential' included, gives the
\* linear curve; the fraction is dropped; the 'exp' velocity never exceeds
\* the linear one
C26_VelocityCurves ==
    mpc = "mapped" =>
        /\ m_in.mapping.velocity_curve = "exp" => m_out.vel = SquaredVelocity(m_in.v_scaled)
        /\ m_in.mapping.velocity_curve # "exp" => m_out.vel = LinearVelocity(m_in.v_scaled)
        /\ SquaredVelocity(m_in.v_scaled) <= LinearVelocity(m_in.v_scaled)

\* at v_scaled = 0.5 the 'exp' velocity is 32 and the linear one is 64
C26_Witness ==
    /\ mpc = "mapped"
    /\ m_in.v_scaled = 5000
    /\ m_in.mapping.velocity_curve = "exp"
    /\ m_out.vel = 32
    /\ LinearVelocity(m_in.v_scaled) = 64

\* C25: for every tempo other than zero and every eval_rate, the step dt of
\* the loop is strictly positive, t strictly increases from step to step, a
\* window of end_t - start_t grains is left after at most that many steps
\* plus one, and the loop is left exactly when t > end_t, the last step
\* having started at or before end_t
C25_LoopTerminates ==
    epc \in {"stepping", "completed"} =>
        /\ dt > 0
        /\ \A i \in 1..(Len(steps) - 1) : steps[i + 1].t > steps[i].t
        /\ Len(steps) <= (cfg.end_t - cfg.start_t) \div Grain + 1
        /\ epc = "completed" =>
              /\ t > cfg.end_t
              /\ \A i \in 1..Len(steps) : steps[i].t <= cfg.end_t
              /\ Len(notes) = Len(steps) * cfg.mapping.polyphony

\* the loop under a negative tempo has run MaxSteps steps and is still inside
\* the window, further from its end than when it started
C25_RunsAway ==
    /\ epc = "stepping"
    /\ Len(steps) = MaxSteps
    /\ cfg.beat < 0
    /\ t < cfg.start_t
    /\ LoopContinues(t, cfg.end_t)

====
